---- MODULE Spec2Model ----
(***************************************************************************)
(* Model of the Lazor solver (src/lazor.py): the doubled-coordinate board, *)
(* the candidate-board generator (Grid_Structure.generate_grid), the ray   *)
(* tracer (Laser_Path) and the brute-force search (solve_path).            *)
(*                                                                         *)
(* Python lists are sequences; Python's 0-based index i is position i+1.   *)
(* A laser state [x, y, dx, dy] is the tuple <<x, y, dx, dy>>, a position   *)
(* [x, y] the tuple <<x, y>>.  grid[row][col] is At(At(grid, row), col).   *)
(***************************************************************************)
EXTENDS Integers, Sequences, FiniteSets, TLC

(***************************************************************************)
(* Bounds of the explored puzzles.                                         *)
(***************************************************************************)
MaxCells == 2
MaxFixed == 2
MaxBlocks == 2
MaxLasers == 1
MaxTargets == 1

\* range(50) in calculate_laser_path
RoundCap == 50

Symbols == {"o", "x", "A", "B", "C"}
BlockSymbols == {"A", "B", "C"}

VARIABLES
    small_grid,          \* raw grid handed to find_fixed_positions
    grid,                \* expanded base board handed to solve_path
    num_reflective, num_opaque, num_refractive,
    laser_start_points, target_positions, fixed_positions,
    block_permutations,  \* list(multiset_permutations(blocks)), popped from the end
    blocks_temp,         \* the candidate placement being tried
    test_board,          \* the candidate board being traced (Laser_Path.grid)
    paths,               \* Laser_Path.paths
    result,              \* the list of targets recorded as hit
    round,               \* the loop variable of "for _ in range(50)"
    idx,                 \* 0-based position of "for path in self.paths"
    pc,                  \* control point of solve_path
    outcome,             \* the tuple solve_path returned
    tried,               \* history: the placements popped so far, in order
    verdicts,            \* history: for each finished trace, whether it succeeded
    lookup,              \* history: the [row, col] of block_interact's last grid read
    test_blocks,         \* test_grid_generation: the list "blocks" it passes
    generated_grid,      \* test_grid_generation: the board generate_grid returned
    final_grid           \* solve_lazor: the grid update_grid_with_lasers returned

vars == <<small_grid, grid, num_reflective, num_opaque, num_refractive,
          laser_start_points, target_positions, fixed_positions,
          block_permutations, blocks_temp, test_board, paths, result,
          round, idx, pc, outcome, tried, verdicts, lookup,
          test_blocks, generated_grid, final_grid>>

puzzle == <<small_grid, grid, num_reflective, num_opaque, num_refractive,
            laser_start_points, target_positions, fixed_positions>>

\* what the callers of solve_path and generate_grid hold besides the search
callers == <<test_blocks, generated_grid, final_grid>>

(***************************************************************************)
(* Python list helpers.                                                    *)
(***************************************************************************)
At(s, i) == s[i + 1]

Last(s) == s[Len(s)]

Front(s) == SubSeq(s, 1, Len(s) - 1)

\* x in list
In(e, s) == \E i \in 1..Len(s) : s[i] = e

\* list.insert(k, e) for 0 <= k
Insert(s, k, e) ==
    IF k >= Len(s) THEN Append(s, e)
    ELSE SubSeq(s, 1, k) \o <<e>> \o SubSeq(s, k + 1, Len(s))

Repeat(e, n) == [i \in 1..n |-> e]

RECURSIVE Flatten(_)
Flatten(rows) ==
    IF rows = <<>> THEN <<>> ELSE Head(rows) \o Flatten(Tail(rows))

RECURSIVE CountOf(_, _)
CountOf(S, s) ==
    IF s = <<>> THEN 0
    ELSE (IF Head(s) \in S THEN 1 ELSE 0) + CountOf(S, Tail(s))

(***************************************************************************)
(* expand_grid_with_boundaries                                             *)
(***************************************************************************)
RECURSIVE InsertBoundaries(_, _, _, _)
\* for j in range(count): s.insert(2 * j, e), from j on
InsertBoundaries(s, j, count, e) ==
    IF j >= count THEN s
    ELSE InsertBoundaries(Insert(s, 2 * j, e), j + 1, count, e)

expand_grid_with_boundaries(grid_layout) ==
    LET row_count == Len(grid_layout)
        col_count == Len(grid_layout[1])
        insert_boundary == Repeat("x", 2 * col_count + 1)
        full_grid == [i \in 1..row_count |->
                         InsertBoundaries(grid_layout[i], 0, col_count + 1, "x")]
    IN  InsertBoundaries(full_grid, 0, row_count + 1, insert_boundary)

(***************************************************************************)
(* find_fixed_positions                                                    *)
(***************************************************************************)
RECURSIVE FixedFrom(_, _, _)
FixedFrom(g, i, j) ==
    IF i >= Len(g) THEN <<>>
    ELSE IF j >= Len(g[1]) THEN FixedFrom(g, i + 1, 0)
    ELSE (IF At(At(g, i), j) \in BlockSymbols
            THEN <<(<<i * 2 + 1, j * 2 + 1>>)>> ELSE <<>>)
         \o FixedFrom(g, i, j + 1)

find_fixed_positions(g) == FixedFrom(g, 0, 0)

(***************************************************************************)
(* Grid_Structure.generate_grid                                            *)
(***************************************************************************)
RECURSIVE PlaceFrom(_, _, _, _, _)
\* the double loop over (row, col), carrying the generated grid and what is
\* left of self.grid_list
PlaceFrom(generated, grid_list, fixed, row, col) ==
    IF row >= Len(generated) THEN generated
    ELSE IF col >= Len(generated[1]) THEN PlaceFrom(generated, grid_list, fixed, row + 1, 0)
    ELSE IF ~In(<<row, col>>, fixed) /\ At(At(generated, row), col) = "o" /\ grid_list # <<>>
        THEN PlaceFrom([generated EXCEPT ![row + 1][col + 1] = Head(grid_list)],
                       Tail(grid_list), fixed, row, col + 1)
        ELSE PlaceFrom(generated, grid_list, fixed, row, col + 1)

RECURSIVE PlaceAnywhereFrom(_, _, _, _, _)
PlaceAnywhereFrom(generated, grid_list, fixed, row, col) ==
    IF row >= Len(generated) THEN generated
    ELSE IF col >= Len(generated[1])
        THEN PlaceAnywhereFrom(generated, grid_list, fixed, row + 1, 0)
    ELSE IF ~In(<<row, col>>, fixed) /\ grid_list # <<>>
        THEN PlaceAnywhereFrom([generated EXCEPT ![row + 1][col + 1] = Head(grid_list)],
                               Tail(grid_list), fixed, row, col + 1)
        ELSE PlaceAnywhereFrom(generated, grid_list, fixed, row, col + 1)

\* generate_grid without the test generated_grid[row][col] == 'o'
generate_grid_any_cell(original_grid, grid_list, fixed) ==
    PlaceAnywhereFrom(original_grid, grid_list, fixed, 0, 0)

RECURSIVE PlaceFromEnd(_, _, _, _, _)
PlaceFromEnd(generated, grid_list, fixed, row, col) ==
    IF row >= Len(generated) THEN generated
    ELSE IF col >= Len(generated[1])
        THEN PlaceFromEnd(generated, grid_list, fixed, row + 1, 0)
    ELSE IF ~In(<<row, col>>, fixed) /\ At(At(generated, row), col) = "o" /\ grid_list # <<>>
        THEN PlaceFromEnd([generated EXCEPT ![row + 1][col + 1] = Last(grid_list)],
                          Front(grid_list), fixed, row, col + 1)
        ELSE PlaceFromEnd(generated, grid_list, fixed, row, col + 1)

\* generate_grid with pop() in place of pop(0)
generate_grid_pop_last(original_grid, grid_list, fixed) ==
    PlaceFromEnd(original_grid, grid_list, fixed, 0, 0)

generate_grid(original_grid, grid_list, fixed) ==
    PlaceFrom(original_grid, grid_list, fixed, 0, 0)

\* how many entries of grid_list the double loop pops
popped_count(original_grid, grid_list, fixed) ==
    LET free == {rc \in (0..(Len(original_grid) - 1)) \X (0..(Len(original_grid[1]) - 1)) :
                    ~In(rc, fixed) /\ At(At(original_grid, rc[1]), rc[2]) = "o"}
    IN  IF Cardinality(free) < Len(grid_list) THEN Cardinality(free) ELSE Len(grid_list)

\* generate_grid popping from the caller's list (self.grid_list = grid_list)
generate_grid_call_shared_list(original_grid, grid_list, fixed) ==
    [generated_grid |-> generate_grid(original_grid, grid_list, fixed),
     original_grid |-> original_grid,
     grid_list |-> SubSeq(grid_list, popped_count(original_grid, grid_list, fixed) + 1,
                          Len(grid_list))]

\* Grid_Structure(original_grid).generate_grid(grid_list, fixed): the board
\* returned, and the two list arguments as the call leaves them.  __init__
\* and line 162 copy every row, line 161 copies grid_list, and the writes and
\* pops go to the copies.
generate_grid_call(original_grid, grid_list, fixed) ==
    [generated_grid |-> generate_grid(original_grid, grid_list, fixed),
     original_grid |-> original_grid,
     grid_list |-> grid_list]

(***************************************************************************)
(* Laser_Path: the interaction rules                                       *)
(***************************************************************************)
\* check_position testing the coordinate but not its successor
check_position_current_only(g, laser_coord, direction) ==
    ~(0 <= laser_coord[1] /\ laser_coord[1] < Len(g[1])
      /\ 0 <= laser_coord[2] /\ laser_coord[2] < Len(g))

\* check_position without the lower bounds "0 <="
check_position_no_lower_bound(g, laser_coord, direction) ==
    ~(laser_coord[1] < Len(g[1]) /\ laser_coord[2] < Len(g)
      /\ laser_coord[1] + direction[1] < Len(g[1])
      /\ laser_coord[2] + direction[2] < Len(g))

\* Laser_Path.check_position: True when the coordinate or its successor is
\* outside the board
check_position(g, laser_coord, direction) ==
    LET width == Len(g[1])
        height == Len(g)
        x == laser_coord[1]
        y == laser_coord[2]
    IN  ~(0 <= x /\ x < width /\ 0 <= y /\ y < height
          /\ 0 <= x + direction[1] /\ x + direction[1] < width
          /\ 0 <= y + direction[2] /\ y + direction[2] < height)

\* interaction_cell with the parity test inverted (x % 2 == 0)
interaction_cell_parity_swapped(point, direction) ==
    IF point[1] % 2 = 0
        THEN <<point[2] + direction[2], point[1]>>
        ELSE <<point[2], point[1] + direction[1]>>

\* the [row, col] index pair block_interact reads
interaction_cell(point, direction) ==
    IF point[1] % 2 = 1
        THEN <<point[2] + direction[2], point[1]>>
        ELSE <<point[2], point[1] + direction[1]>>

\* a Python subscript s[i]: a negative i counts from the end, anything
\* outside -len..len-1 raises IndexError
Subscript(s, i) ==
    IF 0 <= i /\ i < Len(s) THEN <<s[i + 1]>>
    ELSE IF i < 0 /\ -i <= Len(s) THEN <<s[Len(s) + i + 1]>>
    ELSE <<>>

\* self.grid[row][col]; "IndexError" when either subscript raises
grid_read(g, cell) ==
    LET r == Subscript(g, cell[1])
    IN  IF r = <<>> THEN "IndexError"
        ELSE LET c == Subscript(r[1], cell[2])
             IN  IF c = <<>> THEN "IndexError" ELSE c[1]

\* reflect_block with the two faces exchanged
reflect_block_faces_swapped(point, direction) ==
    IF point[1] % 2 = 0
        THEN <<direction[1], direction[2] * (-1)>>
        ELSE <<direction[1] * (-1), direction[2]>>

reflect_block(point, direction) ==
    IF point[1] % 2 = 0
        THEN <<direction[1] * (-1), direction[2]>>
        ELSE <<direction[1], direction[2] * (-1)>>

refract_block(point, direction) ==
    IF point[1] % 2 = 0
        THEN <<direction[1], direction[2], direction[1] * (-1), direction[2]>>
        ELSE <<direction[1], direction[2], direction[1], direction[2] * (-1)>>

\* None (any other symbol) is modelled as the empty list: both are falsy
block_type_interaction(block_type, point, direction) ==
    CASE block_type = "A" -> reflect_block(point, direction)
      [] block_type = "B" -> <<>>
      [] block_type = "C" -> refract_block(point, direction)
      [] block_type \in {"o", "x"} -> direction
      [] OTHER -> <<>>

block_interact(g, point, direction) ==
    block_type_interaction(grid_read(g, interaction_cell(point, direction)),
                           point, direction)

\* record_hit without the test "p in self.target_list"
record_hit_any_position(p, target_list, res) ==
    IF ~In(p, res) THEN Append(res, p) ELSE res

\* "if p in self.target_list and p not in result: result.append(p)"
record_hit(p, target_list, res) ==
    IF In(p, target_list) /\ ~In(p, res) THEN Append(res, p) ELSE res

\* The three operators below return <<paths, result>> after the call on the
\* path at 0-based position i.
\* absorb_path overwriting the last state in place of appending
absorb_path_replaces_last(ps, i, target_list, res) ==
    LET path == At(ps, i)
        position == <<Last(path)[1], Last(path)[2]>>
    IN  <<[ps EXCEPT ![i + 1] = Append(Front(path), <<position[1], position[2], 0, 0>>)],
          record_hit(position, target_list, res)>>

absorb_path(ps, i, target_list, res) ==
    LET path == At(ps, i)
        position == <<Last(path)[1], Last(path)[2]>>
    IN  <<[ps EXCEPT ![i + 1] = Append(path, <<position[1], position[2], 0, 0>>)],
          record_hit(position, target_list, res)>>

\* add_path_direction advancing the last state's list in place
\* (path[-1][:] = [...]) where the code appends a new list
add_path_direction_in_place(ps, i, direction, target_list, res) ==
    LET path == At(ps, i)
        x == Last(path)[1]
        y == Last(path)[2]
        new_position == <<x + direction[1], y + direction[2]>>
    IN  <<[ps EXCEPT ![i + 1] =
              Append(Front(path),
                     <<new_position[1], new_position[2], direction[1], direction[2]>>)],
          record_hit(new_position, target_list, res)>>

add_path_direction(ps, i, direction, target_list, res) ==
    LET path == At(ps, i)
        x == Last(path)[1]
        y == Last(path)[2]
        new_position == <<x + direction[1], y + direction[2]>>
    IN  <<[ps EXCEPT ![i + 1] =
              Append(path, <<new_position[1], new_position[2], direction[1], direction[2]>>)],
          record_hit(new_position, target_list, res)>>

\* split_path_directions starting the transmitted beam at the current position
split_path_directions_same_start(ps, i, direction, target_list, res) ==
    LET path == At(ps, i)
        x == Last(path)[1]
        y == Last(path)[2]
    IN  <<Append([ps EXCEPT ![i + 1] = Append(path, <<x, y, direction[3], direction[4]>>)],
                 <<(<<x, y, direction[1], direction[2]>>)>>),
          record_hit(<<x, y>>, target_list, res)>>

\* split_path_directions starting the transmitted beam one step behind
\* (x - dx, y - dy)
split_path_directions_child_behind(ps, i, direction, target_list, res) ==
    LET path == At(ps, i)
        x == Last(path)[1]
        y == Last(path)[2]
    IN  <<Append([ps EXCEPT ![i + 1] = Append(path, <<x, y, direction[3], direction[4]>>)],
                 <<(<<x - direction[1], y - direction[2], direction[1], direction[2]>>)>>),
          record_hit(<<x, y>>, target_list, res)>>

split_path_directions(ps, i, direction, target_list, res) ==
    LET path == At(ps, i)
        x == Last(path)[1]
        y == Last(path)[2]
        new_coord1 == <<x + direction[1], y + direction[2]>>
        new_coord2 == <<x, y>>
        new_path == <<(<<new_coord1[1], new_coord1[2], direction[1], direction[2]>>)>>
    IN  <<Append([ps EXCEPT ![i + 1] =
                     Append(path, <<new_coord2[1], new_coord2[2], direction[3], direction[4]>>)],
                 new_path),
          record_hit(new_coord2, target_list, res)>>

(***************************************************************************)
(* sympy's multiset_permutations: the distinct permutations, in the        *)
(* lexicographic order of the sorted symbols                               *)
(***************************************************************************)
SymbolOrder == <<"A", "B", "C", "o", "x">>

RECURSIVE PermsFrom(_, _, _)
\* g[k] copies of SymbolOrder[k] are left; the permutations of size `size`
\* that start with SymbolOrder[k] or a later symbol
PermsFrom(g, size, k) ==
    IF size = 0 THEN (IF k = 1 THEN << <<>> >> ELSE <<>>)
    ELSE IF k > Len(SymbolOrder) THEN <<>>
    ELSE (IF g[k] >= 1
            THEN LET rest == PermsFrom([g EXCEPT ![k] = g[k] - 1], size - 1, 1)
                 IN  [j \in 1..Len(rest) |-> <<SymbolOrder[k]>> \o rest[j]]
            ELSE <<>>)
         \o PermsFrom(g, size, k + 1)

RECURSIVE all_orderings(_)
\* itertools.permutations in place of multiset_permutations: equal symbols
\* are told apart, so equal arrangements repeat
all_orderings(m) ==
    IF m = <<>> THEN << <<>> >>
    ELSE LET without(i) == SubSeq(m, 1, i - 1) \o SubSeq(m, i + 1, Len(m))
             starting(i) == LET rest == all_orderings(without(i))
                            IN  [j \in 1..Len(rest) |-> <<m[i]>> \o rest[j]]
             RECURSIVE upto(_)
             upto(i) == IF i = 0 THEN <<>> ELSE upto(i - 1) \o starting(i)
         IN  upto(Len(m))

multiset_permutations(m) ==
    PermsFrom([k \in 1..Len(SymbolOrder) |-> CountOf({SymbolOrder[k]}, m)], Len(m), 1)

\* solve_path lines 338-353: one "o" per empty cell, then the first
\* a + b + c entries overwritten.  blocks[i] = ... past the end of the list
\* raises IndexError: the result is then the empty tuple, otherwise <<blocks>>.
initial_blocks(g, a, b, c) ==
    LET n == CountOf({"o"}, Flatten(g))
    IN  IF a + b + c > n THEN <<>>
        ELSE <<[i \in 1..n |->
                  IF i <= a THEN "A"
                  ELSE IF i <= a + b THEN "B"
                  ELSE IF i <= a + b + c THEN "C"
                  ELSE "o"]>>

(***************************************************************************)
(* validate: TRUE when no ValueError is raised                             *)
(***************************************************************************)
validate(grid_layout, lasers, targets, a, b, c) ==
    LET rows == Len(grid_layout)
        cols == Len(grid_layout[1])
        inside(p) == 0 <= p[1] /\ p[1] <= cols * 2 /\ 0 <= p[2] /\ p[2] <= rows * 2
    IN  /\ lasers # <<>>
        /\ a + b + c # 0
        /\ ~(a + b + c >= rows * cols)
        /\ \A i \in 1..Len(targets) : inside(targets[i])
        /\ \A i \in 1..Len(lasers) :
              /\ inside(lasers[i])
              /\ lasers[i][3] \in {-1, 1} /\ lasers[i][4] \in {-1, 1}
        /\ \A i \in 1..rows : \A j \in 1..cols : grid_layout[i][j] \in Symbols

(***************************************************************************)
(* update_grid_with_lasers.  laser_path is <<>> for None and <<list>> for  *)
(* a list; `raised` names the exception, or is "" when the grid is returned *)
(***************************************************************************)
RECURSIVE FillFrom(_, _, _, _, _)
FillFrom(new_grid, laser_path, laser_index, row, col) ==
    IF row >= Len(new_grid) THEN [raised |-> "", new_grid |-> new_grid]
    ELSE IF col >= Len(new_grid[1]) THEN FillFrom(new_grid, laser_path, laser_index, row + 1, 0)
    ELSE IF At(At(new_grid, row), col) = "o"
        THEN IF laser_path = <<>>
               THEN [raised |-> "TypeError", new_grid |-> <<>>]
             ELSE IF laser_index >= Len(laser_path[1])
               THEN [raised |-> "IndexError", new_grid |-> <<>>]
             ELSE FillFrom([new_grid EXCEPT ![row + 1][col + 1] = At(laser_path[1], laser_index)],
                           laser_path, laser_index + 1, row, col + 1)
        ELSE FillFrom(new_grid, laser_path, laser_index, row, col + 1)

RECURSIVE FillFromIndexKept(_, _, _, _, _)
FillFromIndexKept(new_grid, laser_path, laser_index, row, col) ==
    IF row >= Len(new_grid) THEN [raised |-> "", new_grid |-> new_grid]
    ELSE IF col >= Len(new_grid[1])
        THEN FillFromIndexKept(new_grid, laser_path, laser_index, row + 1, 0)
    ELSE IF At(At(new_grid, row), col) = "o"
        THEN IF laser_path = <<>>
               THEN [raised |-> "TypeError", new_grid |-> <<>>]
             ELSE IF laser_index >= Len(laser_path[1])
               THEN [raised |-> "IndexError", new_grid |-> <<>>]
             ELSE FillFromIndexKept(
                      [new_grid EXCEPT ![row + 1][col + 1] = At(laser_path[1], laser_index)],
                      laser_path, laser_index, row, col + 1)
        ELSE FillFromIndexKept(new_grid, laser_path, laser_index, row, col + 1)

\* update_grid_with_lasers without "laser_index += 1"
update_grid_with_lasers_index_kept(raw, laser_path) ==
    LET filled == FillFromIndexKept(raw, laser_path, 0, 0, 0)
    IN  [raised |-> filled.raised, new_grid |-> filled.new_grid, small_grid |-> raw]

\* the grid returned (or the exception), and the argument small_grid as the
\* call leaves it: line 393 fills a deepcopy
update_grid_with_lasers(raw, laser_path) ==
    LET filled == FillFrom(raw, laser_path, 0, 0, 0)
    IN  [raised |-> filled.raised, new_grid |-> filled.new_grid, small_grid |-> raw]

(***************************************************************************)
(* The puzzles explored                                                    *)
(***************************************************************************)
SeqsOf(S, lo, hi) == UNION {[1..n -> S] : n \in lo..hi}

Shapes == {rc \in (1..MaxCells) \X (1..MaxCells) : rc[1] * rc[2] <= MaxCells}

RawGrids ==
    UNION {{g \in [1..rc[1] -> [1..rc[2] -> Symbols]] :
               CountOf(Symbols \ {"o"}, Flatten(g)) <= MaxFixed} : rc \in Shapes}

\* validate's ranges: 0 <= x <= cols * 2, 0 <= y <= rows * 2
Positions(raw) == (0..(2 * Len(raw[1]))) \X (0..(2 * Len(raw)))

\* Emitters and targets sit on cell edges: the positions with x + y odd.
EdgePositions(raw) == {p \in Positions(raw) : (p[1] + p[2]) % 2 = 1}

\* validate: both direction components are -1 or 1
LaserStates(raw) ==
    {<<p[1], p[2], d[1], d[2]>> : p \in EdgePositions(raw), d \in {-1, 1} \X {-1, 1}}

Counts == {abc \in (0..MaxBlocks) \X (0..MaxBlocks) \X (0..MaxBlocks) :
              abc[1] + abc[2] + abc[3] <= MaxBlocks}

\* solve_path's return value: (solution, blocks_temp, test_board) when found,
\* (None, None, None) when not; NoOutcome before it returns
NoOutcome == [found |-> FALSE, solution |-> <<>>, laser_path |-> <<>>, solved_grid |-> <<>>]

Init ==
    /\ small_grid \in RawGrids
    /\ grid = expand_grid_with_boundaries(small_grid)
    /\ \E abc \in Counts :
          /\ num_reflective = abc[1]
          /\ num_opaque = abc[2]
          /\ num_refractive = abc[3]
    /\ laser_start_points \in SeqsOf(LaserStates(small_grid), 1, MaxLasers)
    /\ target_positions \in SeqsOf(EdgePositions(small_grid), 0, MaxTargets)
    /\ fixed_positions = find_fixed_positions(small_grid)
    /\ block_permutations = <<>>
    /\ blocks_temp = <<>>
    /\ test_board = <<>>
    /\ paths = <<>>
    /\ result = <<>>
    /\ round = 0
    /\ idx = 0
    /\ pc = "solve_path"
    /\ outcome = NoOutcome
    /\ tried = <<>>
    /\ verdicts = <<>>
    /\ lookup = <<>>
    /\ test_blocks = <<>>
    /\ generated_grid = <<>>
    /\ final_grid = <<>>

(***************************************************************************)
(* solve_path                                                              *)
(***************************************************************************)
\* lines 338-355: build the block list and its permutations
solve_path_permutations ==
    /\ pc = "solve_path"
    /\ LET blocks == initial_blocks(grid, num_reflective, num_opaque, num_refractive)
       IN  IF blocks = <<>>
             THEN /\ pc' = "IndexError"
                  /\ UNCHANGED block_permutations
             ELSE /\ block_permutations' = multiset_permutations(blocks[1])
                  /\ pc' = "while"
    /\ UNCHANGED <<puzzle, callers, blocks_temp, test_board, paths, result, round, idx,
                   outcome, tried, verdicts, lookup>>

\* lines 357-366: pop a candidate, build its board, start the trace
solve_path_next_candidate ==
    /\ pc = "while"
    /\ block_permutations # <<>>
    /\ block_permutations' = Front(block_permutations)
    /\ LET call == generate_grid_call(grid, Last(block_permutations), fixed_positions)
       IN  /\ test_board' = call.generated_grid
           /\ blocks_temp' = call.grid_list
           /\ grid' = call.original_grid
    /\ paths' = [i \in 1..Len(laser_start_points) |-> <<laser_start_points[i]>>]
    /\ result' = <<>>
    /\ round' = 0
    /\ idx' = 0
    /\ tried' = Append(tried, Last(block_permutations))
    /\ pc' = "calculate_laser_path"
    /\ UNCHANGED <<small_grid, num_reflective, num_opaque, num_refractive,
                   laser_start_points, target_positions, fixed_positions,
                   callers, outcome, verdicts, lookup>>

\* one iteration of "for path in self.paths" (line 192-194): the call
\* update_laser_path(path, result) on the path at position idx.  The list is
\* re-measured after the call, so a path appended by the call is visited in
\* the same round.
update_laser_path ==
    /\ pc = "calculate_laser_path"
    /\ round < RoundCap
    /\ idx < Len(paths)
    /\ LET path == At(paths, idx)
           position == <<Last(path)[1], Last(path)[2]>>
           direction == <<Last(path)[3], Last(path)[4]>>
           cell == interaction_cell(position, direction)
           block_type == grid_read(test_board, cell)
           next_step == block_interact(test_board, position, direction)
           after == IF next_step = <<>>
                        THEN absorb_path(paths, idx, target_positions, result)
                    ELSE IF Len(next_step) = 2
                        THEN add_path_direction(paths, idx, next_step, target_positions, result)
                    ELSE split_path_directions(paths, idx, next_step, target_positions, result)
       IN  IF check_position(test_board, position, direction)
             THEN /\ UNCHANGED <<paths, result, lookup>>
                  /\ pc' = pc
             ELSE /\ lookup' = cell
                  /\ IF block_type = "IndexError"
                       THEN /\ pc' = "IndexError"
                            /\ UNCHANGED <<paths, result>>
                       ELSE /\ paths' = after[1]
                            /\ result' = after[2]
                            /\ pc' = pc
    /\ IF idx + 1 < Len(paths')
         THEN /\ idx' = idx + 1
              /\ round' = round
         ELSE /\ idx' = 0
              /\ round' = round + 1
    \* line 190: each path's first element is the laser's own list
    /\ laser_start_points' = [i \in 1..Len(laser_start_points) |-> paths'[i][1]]
    /\ UNCHANGED <<small_grid, grid, num_reflective, num_opaque, num_refractive,
                   target_positions, fixed_positions, callers,
                   block_permutations, blocks_temp, test_board, outcome, tried, verdicts>>

\* calculate_laser_path_return with the test "solution != 0" inverted
calculate_laser_path_return_inverted ==
    /\ pc = "calculate_laser_path"
    /\ round = RoundCap \/ Len(paths) = 0
    /\ LET solution == IF Len(result) = Len(target_positions) THEN <<paths>> ELSE <<>>
       IN  /\ IF solution = <<>>
                THEN /\ outcome' = [found |-> TRUE, solution |-> paths,
                                    laser_path |-> blocks_temp, solved_grid |-> test_board]
                     /\ pc' = "return"
                ELSE /\ outcome' = outcome
                     /\ pc' = "while"
           /\ verdicts' = Append(verdicts, solution # <<>>)
    /\ UNCHANGED <<puzzle, callers, block_permutations, blocks_temp, test_board, paths, result,
                   round, idx, tried, lookup>>

\* line 196 and lines 366-369: the trace's verdict and solve_path's test of it.
\* The failure value 0 is the empty tuple here, the path list is wrapped.
calculate_laser_path_return ==
    /\ pc = "calculate_laser_path"
    /\ round = RoundCap \/ Len(paths) = 0
    /\ LET solution == IF Len(result) = Len(target_positions) THEN <<paths>> ELSE <<>>
       IN  /\ IF solution # <<>>
                THEN /\ outcome' = [found |-> TRUE, solution |-> solution[1],
                                    laser_path |-> blocks_temp, solved_grid |-> test_board]
                     /\ pc' = "return"
                ELSE /\ outcome' = outcome
                     /\ pc' = "while"
           /\ verdicts' = Append(verdicts, solution # <<>>)
    /\ UNCHANGED <<puzzle, callers, block_permutations, blocks_temp, test_board, paths, result,
                   round, idx, tried, lookup>>

\* line 370: the permutations are exhausted
solve_path_not_found ==
    /\ pc = "while"
    /\ block_permutations = <<>>
    /\ outcome' = NoOutcome
    /\ pc' = "return"
    /\ UNCHANGED <<puzzle, callers, block_permutations, blocks_temp, test_board, paths, result,
                   round, idx, tried, verdicts, lookup>>

(***************************************************************************)
(* solve_lazor, after convert_bff has validated the puzzle and solve_path  *)
(* has returned (lines 381-386)                                            *)
(***************************************************************************)
Validated ==
    validate(small_grid, laser_start_points, target_positions,
             num_reflective, num_opaque, num_refractive)

solve_lazor_output ==
    /\ pc = "return"
    /\ Validated
    /\ LET laser_path == IF outcome.found THEN <<outcome.laser_path>> ELSE <<>>
           updated == update_grid_with_lasers(small_grid, laser_path)
       IN  /\ small_grid' = updated.small_grid
           /\ IF updated.raised # ""
                THEN /\ pc' = updated.raised
                     /\ UNCHANGED final_grid
                ELSE /\ final_grid' = updated.new_grid
                     \* draw_laser_paths, line 486: "for path in answer_laser"
                     /\ pc' = IF outcome.found THEN "solve_lazor_return" ELSE "TypeError"
    /\ UNCHANGED <<grid, num_reflective, num_opaque, num_refractive,
                   laser_start_points, target_positions, fixed_positions,
                   test_blocks, generated_grid,
                   block_permutations, blocks_temp, test_board, paths, result,
                   round, idx, outcome, tried, verdicts, lookup>>

(***************************************************************************)
(* unit.py, test_grid_generation: generate_grid called with the declared   *)
(* blocks only                                                             *)
(***************************************************************************)
test_grid_generation ==
    /\ pc = "solve_path"
    /\ LET declared == Repeat("A", num_reflective) \o Repeat("B", num_opaque)
                           \o Repeat("C", num_refractive)
           call == generate_grid_call(grid, declared, find_fixed_positions(small_grid))
       IN  /\ generated_grid' = call.generated_grid
           /\ test_blocks' = call.grid_list
           /\ grid' = call.original_grid
    /\ pc' = "test_grid_generation"
    /\ UNCHANGED <<small_grid, num_reflective, num_opaque, num_refractive,
                   laser_start_points, target_positions, fixed_positions, final_grid,
                   block_permutations, blocks_temp, test_board, paths, result,
                   round, idx, outcome, tried, verdicts, lookup>>

Next ==
    \/ solve_path_permutations
    \/ solve_path_next_candidate
    \/ update_laser_path
    \/ calculate_laser_path_return
    \/ solve_path_not_found
    \/ solve_lazor_output
    \/ test_grid_generation

Spec == Init /\ [][Next]_vars

(***************************************************************************)
(* Vocabulary of the properties                                            *)
(***************************************************************************)
Pos(state) == <<state[1], state[2]>>

Dir(state) == <<state[3], state[4]>>

\* the <<path, state>> index pairs of a path list
StatesOf(ps) == UNION {{<<p, k>> : k \in 1..Len(ps[p])} : p \in 1..Len(ps)}

\* the positions of all the states of all the paths of a path list
PositionsOf(ps) == {Pos(ps[pk[1]][pk[2]]) : pk \in StatesOf(ps)}

ElementsOf(s) == {s[i] : i \in 1..Len(s)}

NoRepeats(s) == \A i, j \in 1..Len(s) : s[i] = s[j] => i = j

Tracing == pc = "calculate_laser_path"

TraceOver == Tracing /\ (round = RoundCap \/ Len(paths) = 0)

\* solve_path has returned (solve_lazor may have gone on from there)
Returned == pc \in {"return", "solve_lazor_return", "TypeError"}

EmptyCellCount == CountOf({"o"}, Flatten(grid))

DeclaredTotal == num_reflective + num_opaque + num_refractive

(***************************************************************************)
(* C1: whenever calculate_laser_path or solve_path returns a solution,     *)
(* every declared target is the position of some state of some returned    *)
(* path.                                                                   *)
(***************************************************************************)
\* C1: a successful trace, and a returned solution, covers every target.
C1_SolutionValidity ==
    /\ (TraceOver /\ Len(result) = Len(target_positions))
          => ElementsOf(target_positions) \subseteq PositionsOf(paths)
    /\ (Returned /\ outcome.found)
          => ElementsOf(target_positions) \subseteq PositionsOf(outcome.solution)

\* a search that found a solution for a declared target after placing a block
C1_Witness ==
    /\ Returned /\ outcome.found
    /\ Len(target_positions) >= 1
    /\ CountOf(BlockSymbols, outcome.laser_path) >= 1
    /\ Len(tried) >= 2

(***************************************************************************)
(* C2: the trace succeeds if and only if, after the rounds, every declared *)
(* target is the position of some state of some path (first states         *)
(* included), and no target is recorded twice.                             *)
(***************************************************************************)
\* C2: when the rounds are over, success is equivalent to every target being
\* the position of some state of some path, and result holds no target twice.
C2_SuccessIffCovered ==
    TraceOver =>
        /\ (Len(result) = Len(target_positions))
              <=> (ElementsOf(target_positions) \subseteq PositionsOf(paths))
        /\ NoRepeats(result)

(***************************************************************************)
(* C3: the candidates tried are distinct arrangements of the multiset      *)
(* {a x A, b x B, c x C, (n-a-b-c) x o} over the n empty cells; an         *)
(* exhausted search has tried every arrangement exactly once, that is      *)
(* n! / (a! b! c! (n-a-b-c)!) candidates.                                  *)
(***************************************************************************)
RECURSIVE Factorial(_)
Factorial(k) == IF k <= 0 THEN 1 ELSE k * Factorial(k - 1)

Arrangements ==
    {s \in [1..EmptyCellCount -> {"A", "B", "C", "o"}] :
        /\ CountOf({"A"}, s) = num_reflective
        /\ CountOf({"B"}, s) = num_opaque
        /\ CountOf({"C"}, s) = num_refractive}

\* C3: the placements tried are distinct arrangements of the block multiset,
\* and an exhausted search has tried all n! / (a! b! c! (n-a-b-c)!) of them.
C3_EnumerationExact ==
    /\ ElementsOf(tried) \subseteq Arrangements
    /\ NoRepeats(tried)
    /\ (Returned /\ ~outcome.found) =>
          /\ ElementsOf(tried) = Arrangements
          /\ Len(tried) * Factorial(num_reflective) * Factorial(num_opaque)
                * Factorial(num_refractive) * Factorial(EmptyCellCount - DeclaredTotal)
             = Factorial(EmptyCellCount)

\* an exhausted search over two cells that hold one block and one empty cell
C3_Witness ==
    /\ Returned /\ ~outcome.found
    /\ Len(tried) = 2
    /\ DeclaredTotal = 1

(***************************************************************************)
(* C4: solve_path reports not-found exactly when the trace failed for      *)
(* every distinct placement; otherwise it stops at the first placement, in *)
(* the order tried, whose trace succeeds, and returns that trace's paths,  *)
(* that placement and the board instantiated from that placement.          *)
(***************************************************************************)
\* the number of empty cells of the base board before cell (r, c), row-major
EmptyBefore(r, c) ==
    Cardinality({rc \in (1..Len(grid)) \X (1..Len(grid[1])) :
                    /\ grid[rc[1]][rc[2]] = "o"
                    /\ (rc[1] < r \/ (rc[1] = r /\ rc[2] < c))})

Instantiated(placement) ==
    [r \in 1..Len(grid) |-> [c \in 1..Len(grid[1]) |->
        IF grid[r][c] = "o" THEN placement[EmptyBefore(r, c) + 1] ELSE grid[r][c]]]

\* C4: only the last trace of a successful search succeeds; not-found is
\* returned exactly after every arrangement failed; the returned triple is the
\* successful trace's paths, its placement and the board instantiated from it.
C4_FirstSuccessOrNotFound ==
    /\ \A i \in 1..Len(verdicts) : verdicts[i] => (i = Len(verdicts) /\ Returned /\ outcome.found)
    /\ (Returned /\ ~outcome.found) =>
          /\ ElementsOf(tried) = Arrangements
          /\ Len(verdicts) = Len(tried)
          /\ \A i \in 1..Len(verdicts) : ~verdicts[i]
    /\ (Returned /\ outcome.found) =>
          /\ Len(verdicts) = Len(tried)
          /\ verdicts[Len(verdicts)]
          /\ outcome.laser_path = tried[Len(tried)]
          /\ outcome.solved_grid = Instantiated(tried[Len(tried)])
          /\ outcome.solution = paths
          /\ Len(result) = Len(target_positions)

\* a solution found at the second placement tried, after the first one failed
C4_Witness ==
    /\ Returned /\ outcome.found
    /\ Len(tried) = 2
    /\ ~verdicts[1]
    /\ block_permutations = <<>>

(***************************************************************************)
(* Vocabulary of the tracer's steps.  A step of update_laser_path is a     *)
(* step from Tracing to Tracing; it acts on ActPath, whose last state is   *)
(* ActState.                                                               *)
(***************************************************************************)
TraceStep == Tracing /\ Tracing'

ActPath == paths[idx + 1]

ActState == ActPath[Len(ActPath)]

OnBoard(x, y) == 0 <= x /\ x < Len(test_board[1]) /\ 0 <= y /\ y < Len(test_board)

\* advancing the state by its direction, or the state itself, is off the board
WouldExit(st) == ~(OnBoard(st[1], st[2]) /\ OnBoard(st[1] + st[3], st[2] + st[4]))

\* the symbol of the interaction cell selected by the parity rule
FacingCell(st) ==
    IF st[1] % 2 = 1 THEN test_board[st[2] + st[4] + 1][st[1] + 1]
                     ELSE test_board[st[2] + 1][st[1] + st[3] + 1]

\* dx negated if x is even, dy negated if x is odd
Reflected(st) == IF st[1] % 2 = 0 THEN <<-st[3], st[4]>> ELSE <<st[3], -st[4]>>

UnitDirection(st) == st[3] \in {-1, 1} /\ st[4] \in {-1, 1}


(***************************************************************************)
(* C5: on an Opaque interaction cell the tracer appends exactly one        *)
(* terminal state (x, y, 0, 0); from then on the path gains no state,      *)
(* keeps its position and creates no new path.                             *)
(***************************************************************************)
\* C5: an Opaque step appends the one state (x, y, 0, 0), and a path whose last
\* direction is (0, 0) is never changed again and creates no path.
C5_AbsorbedPathStops ==
    [][TraceStep =>
        /\ (~WouldExit(ActState) /\ FacingCell(ActState) = "B") =>
              paths' = [paths EXCEPT ![idx + 1] =
                           Append(ActPath, <<ActState[1], ActState[2], 0, 0>>)]
        /\ \A i \in 1..Len(paths) :
              Dir(paths[i][Len(paths[i])]) = <<0, 0>> =>
                  /\ paths'[i] = paths[i]
                  /\ (i = idx + 1 => Len(paths') = Len(paths))]_vars

(***************************************************************************)
(* C6: on a Refractive interaction cell exactly two beams result: the      *)
(* current path gets a state at the same position with the reflected       *)
(* direction, and exactly one new path starts at (x+dx, y+dy) with the     *)
(* unchanged direction; every path, the new one included, is visited in    *)
(* turn and advanced by one state unless its advance leaves the board.     *)
(***************************************************************************)
\* C6: a Refractive step appends the reflected state to the current path and
\* one new path one step ahead; every path is visited and advanced in turn.
C6_RefractionBranches ==
    [][TraceStep =>
        /\ (~WouldExit(ActState) /\ FacingCell(ActState) = "C") =>
              /\ Len(paths') = Len(paths) + 1
              /\ paths'[idx + 1] =
                    Append(ActPath, <<ActState[1], ActState[2],
                                      Reflected(ActState)[1], Reflected(ActState)[2]>>)
              /\ paths'[Len(paths')] =
                    <<(<<ActState[1] + ActState[3], ActState[2] + ActState[4],
                         ActState[3], ActState[4]>>)>>
              /\ \A i \in 1..Len(paths) : i # idx + 1 => paths'[i] = paths[i]
        /\ (~WouldExit(ActState) /\ FacingCell(ActState) # "C") => Len(paths') = Len(paths)
        /\ IF WouldExit(ActState)
             THEN paths' = paths
             ELSE Len(paths'[idx + 1]) = Len(ActPath) + 1
        /\ \/ idx' = idx + 1 /\ idx' < Len(paths') /\ round' = round
           \/ idx' = 0 /\ idx + 1 = Len(paths') /\ round' = round + 1]_vars

\* a refraction happened and its transmitted beam was advanced afterwards
C6_Witness ==
    /\ Tracing
    /\ Len(paths) > Len(laser_start_points)
    /\ Len(paths[Len(paths)]) >= 2
    /\ \E k \in 1..RoundCap :
          /\ k < Len(paths[1])
          /\ FacingCell(paths[1][k]) = "C"
          /\ Pos(paths[1][k + 1]) = Pos(paths[1][k])
          /\ Dir(paths[1][k + 1]) # Dir(paths[1][k])

(***************************************************************************)
(* C7: on a Reflective interaction cell the next state's direction is      *)
(* (-dx, dy) if x is even and (dx, -dy) if x is odd, both components       *)
(* staying +1 or -1.  C7_Original adds the claim as stated: every state of *)
(* every path has both direction components of magnitude 1.  C7_Amended    *)
(* allows the zero direction in the terminal states that follow an Opaque  *)
(* absorption, and nowhere else.                                           *)
(***************************************************************************)
ReflectionStep ==
    (~WouldExit(ActState) /\ FacingCell(ActState) = "A") =>
        /\ Len(paths'[idx + 1]) = Len(ActPath) + 1
        /\ Dir(paths'[idx + 1][Len(ActPath) + 1]) = Reflected(ActState)
        /\ UnitDirection(paths'[idx + 1][Len(ActPath) + 1])

AllDirectionsUnit == \A pk \in StatesOf(paths) : UnitDirection(paths[pk[1]][pk[2]])

DirectionsUnitOrAbsorbed ==
    \A pk \in StatesOf(paths) :
        LET st == paths[pk[1]][pk[2]]
        IN  \/ UnitDirection(st)
            \/ /\ Dir(st) = <<0, 0>>
               /\ pk[2] > 1
               /\ LET before == paths[pk[1]][pk[2] - 1]
                  IN  /\ Pos(before) = Pos(st)
                      /\ Dir(before) = <<0, 0>> \/ FacingCell(before) = "B"

\* C7 as stated: the reflection rule, and every state of every path has a
\* direction of magnitude 1 in both components.
C7_Original == [][TraceStep => (ReflectionStep /\ AllDirectionsUnit')]_vars

\* C7 amended: the reflection rule, and every state of every path has a
\* direction of magnitude 1 in both components unless it is a terminal state
\* (x, y, 0, 0) that follows an Opaque absorption.
C7_Amended == [][TraceStep => (ReflectionStep /\ DirectionsUnitOrAbsorbed')]_vars

\* a path holds a state made by a reflection at an odd x that stayed on the board
C7_Witness ==
    /\ Tracing
    /\ \E pk \in StatesOf(paths) :
          /\ pk[2] > 1
          /\ paths[pk[1]][pk[2] - 1][1] % 2 = 1
          /\ OnBoard(paths[pk[1]][pk[2]][1], paths[pk[1]][pk[2]][2])
          /\ FacingCell(paths[pk[1]][pk[2] - 1]) = "A"
          /\ Dir(paths[pk[1]][pk[2]]) = Reflected(paths[pk[1]][pk[2] - 1])
          /\ Pos(paths[pk[1]][pk[2]]) # Pos(paths[pk[1]][pk[2] - 1])

(***************************************************************************)
(* C8: every grid lookup of block_interact uses a row index in             *)
(* [0, height) and a column index in [0, width).                           *)
(***************************************************************************)
\* C8: the last grid lookup of block_interact, if any, is inside the board.
C8_LookupsOnBoard ==
    lookup # <<>> =>
        /\ 0 <= lookup[1] /\ lookup[1] < Len(grid)
        /\ 0 <= lookup[2] /\ lookup[2] < Len(grid[1])

\* lookups were made and a reflection has carried a path's position off the board
C8_Witness ==
    /\ Tracing
    /\ lookup # <<>>
    /\ \E p \in 1..Len(paths) :
          /\ Len(paths[p]) >= 2
          /\ ~OnBoard(paths[p][Len(paths[p])][1], paths[p][Len(paths[p])][2])

(***************************************************************************)
(* C9: a path whose advance would leave the board is terminated.           *)
(* C9_Original is the claim as stated: its final state has direction       *)
(* (0, 0).  C9_Amended: the path is left unchanged by every later step and *)
(* its final state keeps its direction, both components +1 or -1.          *)
(***************************************************************************)
\* C9 as stated: when the rounds are over, every path whose advance would
\* leave the board ends with a state of direction (0, 0).
C9_Original ==
    TraceOver =>
        \A p \in 1..Len(paths) :
            WouldExit(paths[p][Len(paths[p])]) => Dir(paths[p][Len(paths[p])]) = <<0, 0>>

\* C9 amended: a path whose advance would leave the board is left unchanged by
\* every step of the trace, and its last direction has both components +1 or -1.
C9_Amended ==
    [][TraceStep =>
        \A p \in 1..Len(paths) :
            WouldExit(paths[p][Len(paths[p])]) =>
                /\ paths'[p] = paths[p]
                /\ UnitDirection(paths[p][Len(paths[p])])]_vars

\* the rounds are over and a path that had advanced stopped at the board's edge
C9_Witness ==
    /\ TraceOver
    /\ \E p \in 1..Len(paths) :
          /\ Len(paths[p]) >= 2
          /\ Len(paths[p]) < RoundCap
          /\ WouldExit(paths[p][Len(paths[p])])

(***************************************************************************)
(* C10: in every candidate board the symbols placed into the formerly      *)
(* empty cells are a x A, b x B, c x C and Empty elsewhere, every cell of  *)
(* the base board that was not Empty keeps its symbol, and the returned    *)
(* placement holds exactly a + b + c block symbols.                        *)
(***************************************************************************)
Cells == (1..Len(grid)) \X (1..Len(grid[1]))

PlacedCount(sym) ==
    Cardinality({rc \in Cells : grid[rc[1]][rc[2]] = "o" /\ test_board[rc[1]][rc[2]] = sym})

\* C10: the candidate board holds the declared number of each block symbol in
\* the formerly empty cells, Empty in the others, the base board's symbol in
\* every cell that was not Empty; the returned placement holds a + b + c blocks.
C10_CandidateBoardCounts ==
    /\ tried # <<>> =>
          /\ Len(test_board) = Len(grid)
          /\ \A r \in 1..Len(grid) : Len(test_board[r]) = Len(grid[r])
          /\ PlacedCount("A") = num_reflective
          /\ PlacedCount("B") = num_opaque
          /\ PlacedCount("C") = num_refractive
          /\ PlacedCount("o") = EmptyCellCount - DeclaredTotal
          /\ \A rc \in Cells :
                grid[rc[1]][rc[2]] # "o" => test_board[rc[1]][rc[2]] = grid[rc[1]][rc[2]]
    /\ (Returned /\ outcome.found) =>
          CountOf(BlockSymbols, outcome.laser_path) = DeclaredTotal

\* a candidate board with a fixed block beside a placed block
C10_Witness ==
    /\ Tracing
    /\ fixed_positions # <<>>
    /\ DeclaredTotal = 1
    /\ \E rc \in Cells : grid[rc[1]][rc[2]] = "o" /\ test_board[rc[1]][rc[2]] \in BlockSymbols

(***************************************************************************)
(* C11: generate_grid returns a new board with the base board's rows and   *)
(* columns for a placement list of any length, and leaves the base board   *)
(* and the caller's placement list unchanged; every candidate of a search  *)
(* is built from the same unmodified base board.                           *)
(***************************************************************************)
Dimensions(board) == <<Len(board), [r \in 1..Len(board) |-> Len(board[r])]>>

\* the list test_grid_generation passes: the declared blocks only
DeclaredBlocks ==
    Repeat("A", num_reflective) \o Repeat("B", num_opaque) \o Repeat("C", num_refractive)

\* C11: the base board is the expanded raw grid at every moment of a search;
\* after each generate_grid call the board returned has the base board's
\* dimensions and the placement list passed is as it was before the call.
C11_BaseAndPlacementUnchanged ==
    /\ grid = expand_grid_with_boundaries(small_grid)
    /\ tried # <<>> =>
          /\ Dimensions(test_board) = Dimensions(grid)
          /\ blocks_temp = tried[Len(tried)]
    /\ pc = "test_grid_generation" =>
          /\ Dimensions(generated_grid) = Dimensions(grid)
          /\ test_blocks = DeclaredBlocks

\* the second candidate of a search, built after a first one that placed a block
C11_Witness ==
    /\ Tracing
    /\ Len(tried) = 2
    /\ CountOf(BlockSymbols, tried[1]) >= 1
    /\ test_board # grid
    /\ test_board # Instantiated(tried[1])

(***************************************************************************)
(* C12: a placement with fewer entries than there are empty cells fails    *)
(* with a placement-size error instead of returning a board; a placement   *)
(* with more entries succeeds and the extra entries are ignored.           *)
(***************************************************************************)
\* the board whose first empty cells, row-major, hold the entries of the
\* placement, as far as they go
PartlyInstantiated(placement) ==
    [r \in 1..Len(grid) |-> [c \in 1..Len(grid[1]) |->
        IF grid[r][c] = "o" /\ EmptyBefore(r, c) < Len(placement)
          THEN placement[EmptyBefore(r, c) + 1] ELSE grid[r][c]]]

\* C12 as stated: generate_grid returns no board for a placement shorter than
\* the number of empty cells.
C12_Original ==
    (pc = "test_grid_generation" /\ Len(test_blocks) < EmptyCellCount)
        => generated_grid = <<>>

\* C12 amended: generate_grid returns a board for a placement of any length:
\* the k-th empty cell, row-major, holds the k-th entry while entries last, the
\* other empty cells stay Empty, and entries beyond the empty cells are ignored.
C12_Amended ==
    pc = "test_grid_generation" => generated_grid = PartlyInstantiated(test_blocks)

\* one block handed to a board with two empty cells
C12_Witness ==
    /\ pc = "test_grid_generation"
    /\ Len(test_blocks) = 1
    /\ EmptyCellCount = 2
    /\ CountOf(BlockSymbols, Flatten(generated_grid)) = 1

(***************************************************************************)
(* C13: tracing is a pure function of (board, lasers, targets):            *)
(* calculate_laser_path does not modify the board, the laser list or the   *)
(* target list, carries no state from one invocation to the next, and two  *)
(* invocations on equal inputs return equal path lists and the same        *)
(* hit/miss outcome.                                                       *)
(***************************************************************************)
\* the path list and the hits after one call of update_laser_path on path i
AfterUpdate(board, ps, res, targets, i) ==
    LET path == At(ps, i)
        position == <<Last(path)[1], Last(path)[2]>>
        direction == <<Last(path)[3], Last(path)[4]>>
        next_step == block_interact(board, position, direction)
    IN  IF check_position(board, position, direction) THEN <<ps, res>>
        ELSE IF next_step = <<>> THEN absorb_path(ps, i, targets, res)
        ELSE IF Len(next_step) = 2 THEN add_path_direction(ps, i, next_step, targets, res)
        ELSE split_path_directions(ps, i, next_step, targets, res)

RECURSIVE RoundFrom(_, _, _, _, _)
\* one pass of "for path in self.paths" from position i on
RoundFrom(board, ps, res, targets, i) ==
    LET after == AfterUpdate(board, ps, res, targets, i)
    IN  IF i + 1 < Len(after[1])
          THEN RoundFrom(board, after[1], after[2], targets, i + 1)
          ELSE after

RECURSIVE RunFrom(_, _, _, _)
\* the rounds from round r on, as a function of its arguments
RunFrom(board, state, targets, r) ==
    IF r >= RoundCap \/ state[1] = <<>> THEN state
    ELSE RunFrom(board, RoundFrom(board, state[1], state[2], targets, 0), targets, r + 1)

\* what a trace returns, computed from the board, the lasers and the targets only
TraceOf(board, lasers, targets) ==
    RunFrom(board, <<[i \in 1..Len(lasers) |-> <<lasers[i]>>], <<>> >>, targets, 0)

\* C13: no step of a trace changes the board, the laser list or the target
\* list, and when the rounds are over the path list and the hits are the ones
\* determined by the board, the lasers and the targets alone, whatever was
\* traced before.
C13_TracingIsAFunctionOfItsInputs ==
    [][/\ TraceStep =>
             /\ test_board' = test_board
             /\ laser_start_points' = laser_start_points
             /\ target_positions' = target_positions
       /\ (~Tracing /\ Tracing') =>
             /\ paths' = [i \in 1..Len(laser_start_points) |-> <<laser_start_points[i]>>]
             /\ result' = <<>>
       /\ TraceOver' =>
             <<paths', result'>> = TraceOf(test_board', laser_start_points', target_positions')]_vars

\* the second trace of a search is over, and both traces split a beam
C13_Witness ==
    /\ TraceOver
    /\ Len(tried) = 2
    /\ Len(paths) > Len(laser_start_points)
    /\ Len(TraceOf(Instantiated(tried[1]), laser_start_points, target_positions)[1])
          > Len(laser_start_points)

(***************************************************************************)
(* C14: when the search is exhausted and solve_path reports not-found,     *)
(* solve_lazor treats it as a normal outcome: it checks for the not-found  *)
(* value and finishes without raising an exception and without using the   *)
(* missing placement or paths.                                             *)
(***************************************************************************)
\* C14: after a search that reported not-found, solve_lazor never ends in a
\* TypeError raised by using the missing placement or paths.
C14_NotFoundIsNormal ==
    (Returned /\ ~outcome.found) => pc # "TypeError"

(***************************************************************************)
(* C15: calculate_laser_path terminates on every board and laser set: each *)
(* round's pass over the path list is finite although refraction appends   *)
(* paths to the list being iterated (a path created in a round is advanced *)
(* in that round and may split again), the number of rounds is exactly 50, *)
(* and no path ever holds more than 51 states.                             *)
(***************************************************************************)
RECURSIVE StepsToExit(_)
\* how many times the state can still be advanced before it leaves the board
StepsToExit(st) ==
    IF WouldExit(st) \/ Dir(st) = <<0, 0>> THEN 0
    ELSE 1 + StepsToExit(<<st[1] + st[3], st[2] + st[4], st[3], st[4]>>)

RECURSIVE PassLeftFrom(_, _)
\* a bound on the calls of update_laser_path that the paths from position i on
\* still cause in the running pass: one for each path, and one for each path
\* it can still append
PassLeftFrom(ps, i) ==
    IF i >= Len(ps) THEN 0
    ELSE 1 + StepsToExit(Last(At(ps, i))) + PassLeftFrom(ps, i + 1)

\* C15: a step of a trace leaves the paths not yet visited as they are and
\* appends paths that cause fewer calls than the visited path could, so the
\* calls left in the pass decrease until the next round starts; the rounds
\* never pass 50, a trace returns only after round 50, and after r rounds no
\* path holds more than r + 1 states (one more for the paths already visited in
\* the running round), so never more than 51.
C15_TraceTerminates ==
    [][/\ TraceStep =>
             /\ \A p \in (idx + 2)..Len(paths) : paths'[p] = paths[p]
             /\ PassLeftFrom(paths', Len(paths)) < 1 + StepsToExit(ActState)
             /\ \/ round' = round /\ idx' = idx + 1 /\ idx' < Len(paths')
                \/ round' = round + 1 /\ idx' = 0
             /\ round' <= RoundCap
             /\ \A p \in 1..Len(paths') :
                   /\ Len(paths'[p]) <= round' + (IF round' = round /\ p <= idx + 1 THEN 2 ELSE 1)
                   /\ Len(paths'[p]) <= 51
       /\ (Tracing /\ pc' \in {"while", "return"}) => round = 50]_vars

\* in the first round a path created by a refraction was advanced and split again
C15_Witness ==
    /\ Tracing
    /\ round = 1 /\ idx = 0
    /\ Len(laser_start_points) = 1
    /\ Len(paths) >= 3

(***************************************************************************)
(* C16: in every round, each path whose last state passes the bounds check *)
(* gains exactly one state, each path whose advance would leave the board  *)
(* gains none and stays unchanged in all later rounds, and no state        *)
(* already stored in a path is ever removed or modified, so the length of  *)
(* every path is non-decreasing over the rounds.                           *)
(***************************************************************************)
\* C16: the visited path gains one state when its last state passes the bounds
\* check and none otherwise, no other path changes, every path keeps the
\* states it held, a path whose advance would leave the board is unchanged, and
\* at the end of round r each laser's path holds r + 1 states unless it left.
C16_PathsOnlyGrow ==
    [][TraceStep =>
        /\ Len(paths') >= Len(paths)
        /\ \A p \in 1..Len(paths) :
              /\ Len(paths'[p]) >= Len(paths[p])
              /\ SubSeq(paths'[p], 1, Len(paths[p])) = paths[p]
              /\ Len(paths'[p]) =
                    Len(paths[p]) + (IF p = idx + 1 /\ ~WouldExit(ActState) THEN 1 ELSE 0)
              /\ WouldExit(Last(paths[p])) => paths'[p] = paths[p]
        /\ idx' = 0 =>
              \A p \in 1..Len(laser_start_points) :
                  Len(paths'[p]) = round' + 1 \/ WouldExit(Last(paths'[p]))]_vars

\* after several rounds one path has gained a state in every round while
\* another one left the board rounds ago
C16_Witness ==
    /\ Tracing
    /\ idx = 0 /\ round >= 4
    /\ \E p, q \in 1..Len(paths) :
          /\ Len(paths[p]) = round + 1
          /\ WouldExit(Last(paths[q]))
          /\ Len(paths[q]) + 2 < round

(***************************************************************************)
(* C17: stopping the tracer as soon as every path is terminal (its last    *)
(* state fails the bounds check or has direction (0,0)) is equivalent to   *)
(* running all 50 rounds: the remaining rounds change neither the recorded *)
(* hits nor the returned path list.                                        *)
(***************************************************************************)
Terminal(st) == WouldExit(st) \/ Dir(st) = <<0, 0>>

\* C17: once every path is terminal, no step of the trace changes the path
\* list or the recorded hits.
C17_EarlyStopEquivalent ==
    [][(TraceStep /\ \A p \in 1..Len(paths) : Terminal(Last(paths[p])))
          => (paths' = paths /\ result' = result)]_vars

(***************************************************************************)
(* C18: a beam never moves across the face of a block without interacting  *)
(* with it: whenever two consecutive states of a path are at p and         *)
(* p' = p + d with d non-zero, the interaction cell selected by the parity *)
(* rule for (p, d) holds Empty or Boundary; in particular, after a         *)
(* reflection the block on the opposite side of the position is consulted  *)
(* before the beam moves in the reflected direction.                       *)
(***************************************************************************)
\* the move between two consecutive states, as a state at the first position
MoveBetween(a, b) == <<a[1], a[2], b[1] - a[1], b[2] - a[2]>>

\* the cell is a cell of the board
CellOnBoard(cell) ==
    /\ 0 <= cell[1] /\ cell[1] < Len(test_board)
    /\ 0 <= cell[2] /\ cell[2] < Len(test_board[1])

\* C18: for any two consecutive states of a path at different positions, the
\* interaction cell of the first position and the move made, when it is a cell
\* of the board, holds "o" or "x".
C18_NoMoveAcrossABlock ==
    Tracing =>
        \A p \in 1..Len(paths) : \A k \in 1..(Len(paths[p]) - 1) :
            LET move == MoveBetween(paths[p][k], paths[p][k + 1])
                cell == interaction_cell(Pos(move), Dir(move))
            IN  (Dir(move) # <<0, 0>> /\ CellOnBoard(cell)) =>
                    At(At(test_board, cell[1]), cell[2]) \in {"o", "x"}

(***************************************************************************)
(* C19: for a laser starting on a cell edge (x + y odd), every state of    *)
(* every derived path has x + y odd, and every interaction lookup made for *)
(* a state with non-zero direction reads a cell-centre position (odd       *)
(* column, odd row), never an edge or corner.                              *)
(***************************************************************************)
OnEdge(st) == (st[1] + st[2]) % 2 = 1

\* C19: when every laser starts on a cell edge, every state of every path is
\* on a cell edge after each step of the trace, and the cell read for a state
\* of non-zero direction has an odd row and an odd column.
C19_EdgeParityAndCentreLookups ==
    [][(TraceStep /\ \A i \in 1..Len(laser_start_points) : OnEdge(laser_start_points[i])) =>
        /\ \A p \in 1..Len(paths') : \A k \in 1..Len(paths'[p]) : OnEdge(paths'[p][k])
        /\ (~WouldExit(ActState) /\ Dir(ActState) # <<0, 0>>) =>
              /\ lookup' = interaction_cell(Pos(ActState), Dir(ActState))
              /\ lookup'[1] % 2 = 1
              /\ lookup'[2] % 2 = 1]_vars

\* a refracted beam: two paths whose states were all derived from one edge laser,
\* the last lookup made at a cell centre
C19_Witness ==
    /\ Tracing
    /\ Len(paths) >= 2
    /\ Len(paths[1]) >= 3
    /\ lookup # <<>>
    /\ lookup[1] % 2 = 1 /\ lookup[2] % 2 = 1

(***************************************************************************)
(* C20: for every puzzle that validate accepts, the declared block total   *)
(* a + b + c does not exceed the number of empty cells, so solve_path's    *)
(* construction of the block list never writes past its end and the search *)
(* starts without an error.                                                *)
(***************************************************************************)
\* C20: a validated puzzle declares no more blocks than it has empty cells, and
\* solve_path does not raise IndexError on it.
C20_ValidatedSearchStarts ==
    Validated => (DeclaredTotal <= EmptyCellCount /\ pc # "IndexError")

(***************************************************************************)
(* C21: for a successful solve, the grid produced by                       *)
(* update_grid_with_lasers from the raw grid and the winning placement     *)
(* agrees with the winning doubled board: every raw cell (r, c) holds the  *)
(* solved board's symbol at (2r+1, 2c+1), cells that were not Empty in the *)
(* raw grid keep their symbol, and the raw grid itself is not modified.    *)
(***************************************************************************)
RawCells == (0..(Len(small_grid) - 1)) \X (0..(Len(small_grid[1]) - 1))

\* the raw grid that a doubled board holds at its cell centres
CentresOf(board) ==
    [r \in 1..((Len(board) - 1) \div 2) |->
        [c \in 1..((Len(board[1]) - 1) \div 2) |-> At(At(board, 2 * (r - 1) + 1), 2 * (c - 1) + 1)]]

\* C21: when solve_lazor has returned, the final grid has the raw grid's shape
\* and holds in cell (r, c) the solved board's symbol at (2r+1, 2c+1), which is
\* the raw grid's symbol wherever that is not "o"; the raw grid is still the
\* grid the base board was expanded from.
C21_FinalGridAgreesWithSolvedBoard ==
    pc = "solve_lazor_return" =>
        /\ outcome.found
        /\ Dimensions(final_grid) = Dimensions(small_grid)
        /\ \A rc \in RawCells :
              /\ At(At(final_grid, rc[1]), rc[2])
                    = At(At(outcome.solved_grid, 2 * rc[1] + 1), 2 * rc[2] + 1)
              /\ At(At(small_grid, rc[1]), rc[2]) # "o" =>
                    At(At(final_grid, rc[1]), rc[2]) = At(At(small_grid, rc[1]), rc[2])
        /\ small_grid = CentresOf(grid)

\* a solve of a grid with two empty cells whose winning placement leaves the
\* first one empty and puts the block into the second
C21_Witness ==
    /\ pc = "solve_lazor_return"
    /\ EmptyCellCount = 2
    /\ outcome.laser_path[1] = "o"
    /\ outcome.laser_path[2] \in BlockSymbols
    /\ final_grid # small_grid

====
